---- MODULE Spec2Model ----
(***************************************************************************)
(* Social Autopilot: the deterministic statistics of agents/historian.py   *)
(* (_compute_timing_stats, _compute_basic_linguistic_stats), the profile   *)
(* assembly of historian_node, the graph of graph.py with its three nodes, *)
(* and the window comparator and anomaly detector of spec section 4.4.     *)
(*                                                                         *)
(* Numbers.  Timestamps are whole seconds.  Python floats that the code    *)
(* rounds are kept as scaled integers:                                     *)
(*   reply_latency_seconds  in tenths      (round(x, 1))                   *)
(*   initiation_rate        in thousandths (round(x, 3))                   *)
(*   emoji_density          in hundredths  (round(x, 2))                   *)
(* An unrounded quotient a/b is never stored; it is compared by cross      *)
(* multiplication.                                                         *)
(***************************************************************************)
EXTENDS Integers, Sequences, FiniteSets

VARIABLES messages, pc, timing, ling, profiles, baseline, current, anomalies,
          window, llm_out, verdicts, actions, saved, ran, owner_profile,
          conversation_state, main_owner_profile, chats

vars == <<messages, pc, timing, ling, profiles, baseline, current, anomalies,
          window, llm_out, verdicts, actions, saved, ran, owner_profile,
          conversation_state, main_owner_profile, chats>>

(***************************************************************************)
(* Bounds of the input domain.                                             *)
(***************************************************************************)
MaxShort == 3     \* longest timeline drawn over the fine gap set
MaxLong  == 6     \* longest timeline drawn over the coarse gap set
MaxText  == 3     \* longest timeline drawn over the text samples
MaxGraph == 5     \* longest chat handed to the graph
MaxWindow == 32   \* longest timeline handed to the window comparator
MaxChars == 4     \* longest text handed to the emoji count

(***************************************************************************)
(* Participants.  "u1" is the owner; "c2" authors no message of any        *)
(* timeline and stands for a target id absent from the timeline.           *)
(***************************************************************************)
Senders == {"u1", "c1"}
AllIds  == Senders \cup {"c2"}

SenderName(id) ==
    IF id = "u1" THEN "Anupam"
    ELSE IF id = "c1" THEN "Riya"
    ELSE IF id = "c3" THEN "Kabir"
    ELSE "Nobody"

(***************************************************************************)
(* Characters are Unicode code points.                                     *)
(***************************************************************************)
Ch == [space |-> 32, a |-> 97, grin |-> 128512, han |-> 20013]
SP   == Ch.space    \* ' '
LA   == Ch.a        \* 'a'
GRIN == Ch.grin     \* U+1F600, grinning face
HAN  == Ch.han      \* U+4E2D, a CJK ideograph

\* str.isspace(): the whitespace code points that str.strip()/str.split() drop
IsSpace(c) == c \in {9, 10, 11, 12, 13, 28, 29, 30, 31, 32, 133, 160}

\* EMOJI_PATTERN's character class
EmojiRanges ==
    { <<128512, 128591>>, <<127744, 128511>>, <<128640, 128767>>,
      <<127456, 127487>>, <<9986, 10160>>,    <<9410, 127569>>,
      <<129280, 129535>>, <<129536, 129647>>, <<129648, 129791>>,
      <<9728, 9983>>,     <<65024, 65039>>,   <<8205, 8205>> }

InEmojiClass(c) == \E r \in EmojiRanges : r[1] <= c /\ c <= r[2]

(***************************************************************************)
(* MessageModel (the fields the agents read).                              *)
(***************************************************************************)
MessageModel(s, t, c) ==
    [sender_id |-> s, sender_name |-> SenderName(s), content |-> c, timestamp |-> t]

\* datetime.hour of a timestamp
Hour(t) == (t \div 3600) % 24

(***************************************************************************)
(* Input timelines.  The first message is sent at Base (22:00:00); every   *)
(* later message is sent `gap` seconds after its predecessor.  A negative  *)
(* gap gives a timeline that is not in ascending order: the code never     *)
(* sorts or checks its input.                                              *)
(***************************************************************************)
Base == 22 * 3600

FineGaps   == {-10, 0, 10, 60, 61, 3599, 3600}
CoarseGaps == {10, 3600}
PlainText  == <<LA>>
TextSamples ==
    { <<>>, <<SP>>, <<LA, SP, LA>>, <<GRIN, GRIN>>, <<GRIN, LA, GRIN, SP>> }

\* spec section 8: A->B->A with gaps 100s, 50s; own messages at 0, 10, 20, 200;
\* gaps [0, 3700, 10] (read with the first gap as the first message's, and as
\* a gap between the first two messages)
\* and the second scenario followed by a second burst, one message of
\* another participant falling inside the first burst; two bursts of three
\* messages a minute apart each
ScenarioGaps ==
    { <<0, 100, 50>>, <<0, 10, 10, 180>>, <<0, 3700, 10>>, <<0, 0, 3700, 10>>,
      <<0, 10, 5, 5, 180, 10, 10>>, <<0, 60, 60, 61, 60, 60>> }

RECURSIVE Offset(_, _)
Offset(g, i) == IF i <= 1 THEN 0 ELSE g[i] + Offset(g, i - 1)

\* the timeline of n messages with senders s, gaps g and texts c
Timeline(n, s, g, c) ==
    [i \in 1..n |-> MessageModel(s[i], Base + Offset(g, i), c[i])]

\* `msgs` is some timeline of n messages over the given gaps and texts
IsTimelineOver(msgs, n, gaps, texts) ==
    \E s \in [1..n -> Senders], g \in [2..n -> gaps], c \in [1..n -> texts] :
        msgs = Timeline(n, s, g, c)

\* The input domain: short timelines over the fine gaps, long ones over the
\* coarse gaps, timelines of text samples sent 10 s apart, and the scenarios
IsInputTimeline(msgs) ==
    \/ \E n \in 0..MaxShort : IsTimelineOver(msgs, n, FineGaps, {PlainText})
    \/ \E n \in 0..MaxLong : IsTimelineOver(msgs, n, CoarseGaps, {PlainText})
    \/ \E n \in 0..MaxText : IsTimelineOver(msgs, n, {10}, TextSamples)
    \/ \E g \in ScenarioGaps : \E s \in [1..Len(g) -> Senders] :
          msgs = Timeline(Len(g), s, g, [i \in 1..Len(g) |-> PlainText])

(***************************************************************************)
(* Python helpers.                                                         *)
(***************************************************************************)
Range(f) == { f[k] : k \in DOMAIN f }

RECURSIVE sum(_)
sum(xs) == IF xs = <<>> THEN 0 ELSE xs[1] + sum(Tail(xs))

\* round(n / d, digits) for d > 0, returned as an integer count of the last
\* digit kept; the caller passes n already multiplied by 10^digits.  Python
\* rounds a tie that is exact in binary to the even digit.  A tie that is not
\* exact in binary goes the way the float error falls; it needs a count d that
\* is a multiple of 20 (reply gaps), 40 (non-blank messages) or 80
\* (conversations), beyond the timelines drawn here.
round(n, d) ==
    LET q == n \div d
        r == n % d
    IN  IF 2 * r < d THEN q
        ELSE IF 2 * r > d THEN q + 1
        ELSE IF q % 2 = 0 THEN q ELSE q + 1

\* [m for m in all_messages if m.sender_id == participant_id]
participant_msgs(participant_id, all_messages) ==
    SelectSeq(all_messages, LAMBDA m : m.sender_id = participant_id)

(***************************************************************************)
(* _compute_timing_stats: reply latency.                                   *)
(***************************************************************************)
latencies_body_any_prev(participant_id, all_messages, i, latencies) ==
    LET msg == all_messages[i] IN
    IF msg.sender_id = participant_id /\ i > 1
    THEN LET prev == all_messages[i - 1]
             diff == msg.timestamp - prev.timestamp
         IN  IF diff > 0 THEN Append(latencies, diff) ELSE latencies
    ELSE latencies

latencies_body_no_sign(participant_id, all_messages, i, latencies) ==
    LET msg == all_messages[i] IN
    IF msg.sender_id = participant_id /\ i > 1
    THEN LET prev == all_messages[i - 1] IN
         IF prev.sender_id # participant_id
         THEN Append(latencies, msg.timestamp - prev.timestamp)
         ELSE latencies
    ELSE latencies

\* one iteration of the loop at lines 103-109
latencies_body(participant_id, all_messages, i, latencies) ==
    LET msg == all_messages[i] IN
    IF msg.sender_id = participant_id /\ i > 1
    THEN LET prev == all_messages[i - 1] IN
         IF prev.sender_id # participant_id
         THEN LET diff == msg.timestamp - prev.timestamp
              IN  IF diff > 0 THEN Append(latencies, diff) ELSE latencies
         ELSE latencies
    ELSE latencies

RECURSIVE latencies_loop(_, _, _, _)
latencies_loop(participant_id, all_messages, i, latencies) ==
    IF i > Len(all_messages) THEN latencies
    ELSE latencies_loop(participant_id, all_messages, i + 1,
                        latencies_body(participant_id, all_messages, i, latencies))

latencies_of(participant_id, all_messages) ==
    latencies_loop(participant_id, all_messages, 1, <<>>)

divides_latencies_unguarded(latencies) == TRUE

\* line 111: `sum(latencies) / len(latencies)` is evaluated only `if latencies`
divides_latencies(latencies) == latencies # <<>>

\* round(avg_latency, 1), in tenths of a second
reply_latency_seconds(participant_id, all_messages) ==
    LET latencies == latencies_of(participant_id, all_messages)
    IN  IF divides_latencies(latencies)
        THEN round(10 * sum(latencies), Len(latencies)) ELSE 0

(***************************************************************************)
(* _compute_timing_stats: peak activity hours.  hour_counts is a dict; its *)
(* items() come in insertion order, kept here as a sequence of             *)
(* <<hour, count>> pairs.                                                  *)
(***************************************************************************)
\* hour_counts[m.timestamp.hour] += 1
hour_counts_body(hour_counts, m) ==
    LET h == Hour(m.timestamp) IN
    IF \E k \in 1..Len(hour_counts) : hour_counts[k][1] = h
    THEN [k \in 1..Len(hour_counts) |->
            IF hour_counts[k][1] = h
            THEN <<h, hour_counts[k][2] + 1>> ELSE hour_counts[k]]
    ELSE Append(hour_counts, <<h, 1>>)

RECURSIVE hour_counts_loop(_, _, _)
hour_counts_loop(msgs, i, hour_counts) ==
    IF i > Len(msgs) THEN hour_counts
    ELSE hour_counts_loop(msgs, i + 1, hour_counts_body(hour_counts, msgs[i]))

insert_ascending(sorted_items, x) ==
    LET k == Cardinality({j \in 1..Len(sorted_items) : sorted_items[j][2] <= x[2]})
    IN  SubSeq(sorted_items, 1, k) \o <<x>> \o SubSeq(sorted_items, k + 1, Len(sorted_items))

\* sorted(..., key=lambda x: x[1], reverse=True) is stable: an item goes
\* behind every item already placed whose count is greater or equal
insert_sorted(sorted_items, x) ==
    LET k == Cardinality({j \in 1..Len(sorted_items) : sorted_items[j][2] >= x[2]})
    IN  SubSeq(sorted_items, 1, k) \o <<x>> \o SubSeq(sorted_items, k + 1, Len(sorted_items))

RECURSIVE sorted_loop(_, _, _)
sorted_loop(items, i, sorted_items) ==
    IF i > Len(items) THEN sorted_items
    ELSE sorted_loop(items, i + 1, insert_sorted(sorted_items, items[i]))

sorted_hours(participant_id, all_messages) ==
    sorted_loop(hour_counts_loop(participant_msgs(participant_id, all_messages), 1, <<>>),
                1, <<>>)

peak_hours_uncut(participant_id, all_messages) ==
    LET sh == sorted_hours(participant_id, all_messages)
    IN  [k \in 1..Len(sh) |-> sh[k][1]]

\* [h for h, _ in sorted_hours[:5]]
peak_hours(participant_id, all_messages) ==
    LET sh == sorted_hours(participant_id, all_messages)
        n  == IF Len(sh) < 5 THEN Len(sh) ELSE 5
    IN  [k \in 1..n |-> sh[k][1]]

(***************************************************************************)
(* _compute_timing_stats: initiation rate.  The loop state is              *)
(* <<initiations, total_conversations>>.                                   *)
(***************************************************************************)
GAP_THRESHOLD == 3600

initiation_body_strict_gap(participant_id, all_messages, i, st) ==
    LET msg == all_messages[i]
        own == IF msg.sender_id = participant_id THEN 1 ELSE 0
    IN  IF i = 1 THEN <<st[1] + own, st[2] + 1>>
        ELSE LET gap == msg.timestamp - all_messages[i - 1].timestamp
             IN  IF gap > GAP_THRESHOLD THEN <<st[1] + own, st[2] + 1>> ELSE st

initiation_body_first_unattributed(participant_id, all_messages, i, st) ==
    LET msg == all_messages[i]
        own == IF msg.sender_id = participant_id THEN 1 ELSE 0
    IN  IF i = 1 THEN <<st[1], st[2] + 1>>
        ELSE LET gap == msg.timestamp - all_messages[i - 1].timestamp
             IN  IF gap >= GAP_THRESHOLD THEN <<st[1] + own, st[2] + 1>> ELSE st

initiation_body_every_own(participant_id, all_messages, i, st) ==
    LET msg == all_messages[i]
        own == IF msg.sender_id = participant_id THEN 1 ELSE 0
    IN  IF i = 1 THEN <<st[1] + own, st[2] + 1>>
        ELSE LET gap == msg.timestamp - all_messages[i - 1].timestamp
             IN  IF gap >= GAP_THRESHOLD THEN <<st[1] + own, st[2] + 1>>
                 ELSE <<st[1] + own, st[2]>>

\* one iteration of the loop at lines 127-138
initiation_body(participant_id, all_messages, i, st) ==
    LET msg == all_messages[i]
        own == IF msg.sender_id = participant_id THEN 1 ELSE 0
    IN  IF i = 1 THEN <<st[1] + own, st[2] + 1>>
        ELSE LET gap == msg.timestamp - all_messages[i - 1].timestamp
             IN  IF gap >= GAP_THRESHOLD THEN <<st[1] + own, st[2] + 1>> ELSE st

RECURSIVE initiation_loop(_, _, _, _)
initiation_loop(participant_id, all_messages, i, st) ==
    IF i > Len(all_messages) THEN st
    ELSE initiation_loop(participant_id, all_messages, i + 1,
                         initiation_body(participant_id, all_messages, i, st))

initiations(participant_id, all_messages) ==
    initiation_loop(participant_id, all_messages, 1, <<0, 0>>)[1]

total_conversations(participant_id, all_messages) ==
    initiation_loop(participant_id, all_messages, 1, <<0, 0>>)[2]

\* line 140: `initiations / total_conversations` is evaluated only
\* `if total_conversations > 0`
divides_conversations(total) == total > 0

\* round(init_rate, 3), in thousandths
initiation_rate(participant_id, all_messages) ==
    LET st == initiation_loop(participant_id, all_messages, 1, <<0, 0>>)
    IN  IF divides_conversations(st[2]) THEN round(1000 * st[1], st[2]) ELSE 0

(***************************************************************************)
(* _compute_timing_stats: batch messaging.  The loop state is              *)
(* <<batch_count, streak>>.                                                *)
(***************************************************************************)
BATCH_GAP == 60
BATCH_STREAK == 3
BATCH_EPISODES == 2

batch_body_strict_gap(msgs, i, st) ==
    LET diff == msgs[i].timestamp - msgs[i - 1].timestamp IN
    IF diff < BATCH_GAP THEN <<st[1], st[2] + 1>>
    ELSE IF st[2] >= BATCH_STREAK THEN <<st[1] + 1, 1>> ELSE <<st[1], 1>>

\* one iteration of the loop at lines 146-153
batch_body(msgs, i, st) ==
    LET diff == msgs[i].timestamp - msgs[i - 1].timestamp IN
    IF diff <= BATCH_GAP THEN <<st[1], st[2] + 1>>
    ELSE IF st[2] >= BATCH_STREAK THEN <<st[1] + 1, 1>> ELSE <<st[1], 1>>

RECURSIVE batch_loop(_, _, _)
batch_loop(msgs, i, st) ==
    IF i > Len(msgs) THEN st ELSE batch_loop(msgs, i + 1, batch_body(msgs, i, st))

batch_count_open_streak_dropped(participant_id, all_messages) ==
    batch_loop(participant_msgs(participant_id, all_messages), 2, <<0, 1>>)[1]

\* lines 144-155: the loop, then the streak still open at the end
batch_count(participant_id, all_messages) ==
    LET st == batch_loop(participant_msgs(participant_id, all_messages), 2, <<0, 1>>)
    IN  IF st[2] >= BATCH_STREAK THEN st[1] + 1 ELSE st[1]

is_batch(participant_id, all_messages) ==
    batch_count(participant_id, all_messages) >= BATCH_EPISODES

\* the call ends in ZeroDivisionError instead of returning: a division is
\* evaluated on a zero divisor.  The function has no other statement that
\* can raise on a list of MessageModel and no raise of its own.
timing_raises(participant_id, all_messages) ==
    LET latencies == latencies_of(participant_id, all_messages)
        total     == total_conversations(participant_id, all_messages)
    IN  \/ divides_latencies(latencies) /\ Len(latencies) = 0
        \/ divides_conversations(total) /\ total = 0

\* the dict returned at lines 159-164
compute_timing_stats(participant_id, all_messages) ==
    [ reply_latency_seconds |-> reply_latency_seconds(participant_id, all_messages),
      peak_activity_hours   |-> peak_hours(participant_id, all_messages),
      initiation_rate       |-> initiation_rate(participant_id, all_messages),
      batch_messaging       |-> is_batch(participant_id, all_messages) ]

(***************************************************************************)
(* _compute_basic_linguistic_stats.  The loop state is                     *)
(* <<total_emojis, total_words, text_messages>>.                           *)
(***************************************************************************)
\* not content.strip()
is_blank(content) == \A k \in 1..Len(content) : IsSpace(content[k])

\* len(EMOJI_PATTERN.findall(content)): the class is repeated with +, so each
\* match is a maximal run; a run starts where a class character follows the
\* start of the text or a character outside the class
emoji_matches(content) ==
    Cardinality({ k \in 1..Len(content) :
        /\ InEmojiClass(content[k])
        /\ (k = 1 \/ ~InEmojiClass(content[k - 1])) })

\* len(content.split())
word_count(content) ==
    Cardinality({ k \in 1..Len(content) :
        /\ ~IsSpace(content[k])
        /\ (k = 1 \/ IsSpace(content[k - 1])) })

linguistic_body_blank_counted(st, m) ==
    <<st[1] + emoji_matches(m.content), st[2] + word_count(m.content), st[3] + 1>>

\* one iteration of the loop at lines 175-180
linguistic_body(st, m) ==
    IF is_blank(m.content) THEN st
    ELSE <<st[1] + emoji_matches(m.content), st[2] + word_count(m.content), st[3] + 1>>

RECURSIVE linguistic_loop(_, _, _)
linguistic_loop(msgs, i, st) ==
    IF i > Len(msgs) THEN st
    ELSE linguistic_loop(msgs, i + 1, linguistic_body(st, msgs[i]))

\* lines 183-184: both divisions are evaluated only `if text_messages`
divides_text_messages(text_messages) == text_messages # 0

\* the call ends in ZeroDivisionError instead of returning
linguistic_raises(msgs) ==
    LET st == linguistic_loop(msgs, 1, <<0, 0, 0>>)
    IN  divides_text_messages(st[3]) /\ st[3] = 0

\* the dict returned at lines 182-185; emoji_density in hundredths
compute_basic_linguistic_stats(msgs) ==
    LET st == linguistic_loop(msgs, 1, <<0, 0, 0>>)
    IN  [ emoji_density  |-> IF divides_text_messages(st[3])
                             THEN round(100 * st[1], st[3]) ELSE 0,
          avg_word_count |-> IF divides_text_messages(st[3])
                             THEN st[2] \div st[3] ELSE 0 ]

(***************************************************************************)
(* historian_node.                                                         *)
(***************************************************************************)
\* lines 201-204: the keys of the dict `participants`, in insertion order
RECURSIVE participants_loop(_, _, _)
participants_loop(msgs, i, ids) ==
    IF i > Len(msgs) THEN ids
    ELSE participants_loop(msgs, i + 1,
            IF \E k \in 1..Len(ids) : ids[k] = msgs[i].sender_id
            THEN ids ELSE Append(ids, msgs[i].sender_id))

participants(msgs) == participants_loop(msgs, 1, <<>>)

\* participants[pid]: the sender_name of pid's first message
participant_name(pid, msgs) ==
    LET k == CHOOSE k \in 1..Len(msgs) :
                /\ msgs[k].sender_id = pid
                /\ \A j \in 1..(k - 1) : msgs[j].sender_id # pid
    IN  msgs[k].sender_name

\* What structured_llm.invoke may return: a ParticipantProfile whose every
\* field is the model's own.  Two samples that differ in every field.
LLMProfiles ==
    { [ sender_id |-> "llm-a", sender_name |-> "Model A",
        typing_style |->
          [ emoji_density |-> 999, avg_word_count |-> 99, formality_level |-> "Casual",
            use_of_slang |-> TRUE, punctuation_style |-> "Minimalist",
            jargon_used |-> <<"render">> ],
        communication_patterns |->
          [ reply_latency_seconds |-> 99999, peak_activity_hours |-> <<12, 13>>,
            initiation_rate |-> 500, batch_messaging |-> TRUE,
            responsiveness |-> "Batch Replier" ],
        sentiment_tone |-> "Enthusiastic", top_topics |-> <<"blender">> ],
      [ sender_id |-> "llm-b", sender_name |-> "Model B",
        typing_style |->
          [ emoji_density |-> 0, avg_word_count |-> 0, formality_level |-> "Formal",
            use_of_slang |-> FALSE, punctuation_style |-> "Formal",
            jargon_used |-> <<>> ],
        communication_patterns |->
          [ reply_latency_seconds |-> 0, peak_activity_hours |-> <<>>,
            initiation_rate |-> 0, batch_messaging |-> FALSE,
            responsiveness |-> "Immediate" ],
        sentiment_tone |-> "Brief & curt", top_topics |-> <<>> ] }

override_emoji_density_kept(profile, pid, pname, timing_stats, ling_stats) ==
    [ profile EXCEPT
        !.sender_id = pid,
        !.sender_name = pname,
        !.communication_patterns.reply_latency_seconds = timing_stats.reply_latency_seconds,
        !.communication_patterns.peak_activity_hours = timing_stats.peak_activity_hours,
        !.communication_patterns.initiation_rate = timing_stats.initiation_rate,
        !.communication_patterns.batch_messaging = timing_stats.batch_messaging,
        !.typing_style.avg_word_count = ling_stats.avg_word_count ]

override_responsiveness_derived(profile, pid, pname, timing_stats, ling_stats) ==
    [ profile EXCEPT
        !.sender_id = pid,
        !.sender_name = pname,
        !.communication_patterns.reply_latency_seconds = timing_stats.reply_latency_seconds,
        !.communication_patterns.peak_activity_hours = timing_stats.peak_activity_hours,
        !.communication_patterns.initiation_rate = timing_stats.initiation_rate,
        !.communication_patterns.batch_messaging = timing_stats.batch_messaging,
        !.communication_patterns.responsiveness =
            IF timing_stats.batch_messaging THEN "Batch Replier" ELSE "Immediate",
        !.typing_style.emoji_density = ling_stats.emoji_density,
        !.typing_style.avg_word_count = ling_stats.avg_word_count ]

\* lines 245-253: override LLM values with the deterministic computations
override(profile, pid, pname, timing_stats, ling_stats) ==
    [ profile EXCEPT
        !.sender_id = pid,
        !.sender_name = pname,
        !.communication_patterns.reply_latency_seconds = timing_stats.reply_latency_seconds,
        !.communication_patterns.peak_activity_hours = timing_stats.peak_activity_hours,
        !.communication_patterns.initiation_rate = timing_stats.initiation_rate,
        !.communication_patterns.batch_messaging = timing_stats.batch_messaging,
        !.typing_style.emoji_density = ling_stats.emoji_density,
        !.typing_style.avg_word_count = ling_stats.avg_word_count ]

\* lines 208-255 for the participant pid, given the profile the model returned
analyze_participant(pid, msgs, llm_profile) ==
    override(llm_profile, pid, participant_name(pid, msgs),
             compute_timing_stats(pid, msgs),
             compute_basic_linguistic_stats(participant_msgs(pid, msgs)))

(***************************************************************************)
(* Window comparator / anomaly detector (spec section 4.4).  Its code is   *)
(* not among the sources: state.py declares the Anomaly record and main.py *)
(* prints the anomalies of a profile.  Modelled from the specification.    *)
(* A metric value is a non-negative number; baseline and current of one    *)
(* metric are on the same scale.  deviation_factor is the fraction         *)
(* <<numerator, denominator>>.                                             *)
(***************************************************************************)
Metrics == <<"reply_latency", "emoji_density", "avg_word_count">>

MetricValues == {0, 10, 15, 19, 20}

deviates_strictly(b, c) == c > 2 * b \/ 2 * c < b

\* ratio >= 2.0 or ratio <= 0.5, for ratio = c / b and b > 0
deviates(b, c) == c >= 2 * b \/ 2 * c <= b

metric_anomalies_zero_baseline_compared(metric, b, c) ==
    IF deviates(b, c)
    THEN << [metric |-> metric, baseline |-> b, current |-> c,
             deviation_factor |-> <<c, b>>] >>
    ELSE <<>>

\* the anomalies of one metric: none on a zero baseline
metric_anomalies(metric, b, c) ==
    IF b = 0 THEN <<>>
    ELSE IF deviates(b, c)
         THEN << [metric |-> metric, baseline |-> b, current |-> c,
                  deviation_factor |-> <<c, b>>] >>
         ELSE <<>>

detect_anomalies(base, cur) ==
    metric_anomalies(Metrics[1], base[Metrics[1]], cur[Metrics[1]])
    \o metric_anomalies(Metrics[2], base[Metrics[2]], cur[Metrics[2]])
    \o metric_anomalies(Metrics[3], base[Metrics[3]], cur[Metrics[3]])

(***************************************************************************)
(* Recent window.  strategist_node cuts the window from the whole          *)
(* timeline.  The statistics of one participant inside the window belong   *)
(* to the window comparator of spec section 4.4, whose code is not among   *)
(* the sources; they are modelled from the specification.                  *)
(***************************************************************************)
WINDOW_SIZE == 30

recent_window_from_the_start(msgs) ==
    SubSeq(msgs, 1, IF Len(msgs) > WINDOW_SIZE THEN WINDOW_SIZE ELSE Len(msgs))

\* messages[-30:]
recent_window(msgs) ==
    SubSeq(msgs, IF Len(msgs) > WINDOW_SIZE THEN Len(msgs) - WINDOW_SIZE + 1 ELSE 1,
           Len(msgs))

\* the participant's messages inside the window
window_sample(participant_id, msgs) ==
    participant_msgs(participant_id, recent_window(msgs))

\* the three tracked metrics of a participant over a timeline, `sample`
\* being the participant's messages in it
tracked_stats(participant_id, msgs, sample) ==
    [ reply_latency  |-> reply_latency_seconds(participant_id, msgs),
      emoji_density  |-> compute_basic_linguistic_stats(sample).emoji_density,
      avg_word_count |-> compute_basic_linguistic_stats(sample).avg_word_count ]

\* full-history baseline
baseline_stats(participant_id, msgs) ==
    tracked_stats(participant_id, msgs, participant_msgs(participant_id, msgs))

\* the same statistics over the window only
current_stats(participant_id, msgs) ==
    tracked_stats(participant_id, recent_window(msgs), window_sample(participant_id, msgs))

(***************************************************************************)
(* strategist_node and orchestrator_node: what the model may return, and   *)
(* the sort of the verdicts.                                               *)
(***************************************************************************)
LLMVerdictLists ==
    { <<>>,
      << [contact_name |-> "Riya", state |-> "Stagnant", priority |-> 3,
          recommended_action |-> "Nudge"],
         [contact_name |-> "Anupam", state |-> "Debt", priority |-> 8,
          recommended_action |-> "Deep_Reply"] >> }

LLMActionLists ==
    { <<>>,
      << [contact_name |-> "Riya", action_type |-> "Nudge", quick_copy |-> "hey",
          rationale |-> "quiet for a while"] >> }

\* list.sort(key=lambda v: v.priority, reverse=True) is stable
insert_by_priority(sorted_verdicts, v) ==
    LET k == Cardinality({j \in 1..Len(sorted_verdicts) : sorted_verdicts[j].priority >= v.priority})
    IN  SubSeq(sorted_verdicts, 1, k) \o <<v>>
          \o SubSeq(sorted_verdicts, k + 1, Len(sorted_verdicts))

RECURSIVE sort_by_priority_loop(_, _, _)
sort_by_priority_loop(vs, i, sorted_verdicts) ==
    IF i > Len(vs) THEN sorted_verdicts
    ELSE sort_by_priority_loop(vs, i + 1, insert_by_priority(sorted_verdicts, vs[i]))

sort_by_priority(vs) == sort_by_priority_loop(vs, 1, <<>>)

(***************************************************************************)
(* The compiled graph.                                                     *)
(***************************************************************************)
Nodes == {"historian", "strategist", "orchestrator"}

Edges_orchestrator_before_strategist ==
    { <<"START", "historian">>, <<"historian", "orchestrator">>,
      <<"orchestrator", "strategist">>, <<"strategist", "END">> }

\* the four add_edge calls
Edges ==
    { <<"START", "historian">>, <<"historian", "strategist">>,
      <<"strategist", "orchestrator">>, <<"orchestrator", "END">> }

\* the node the graph runs after n
successor(n) == CHOOSE m \in Nodes \cup {"END"} : <<n, m>> \in Edges

(***************************************************************************)
(* What a call leaves in the list it was given.  Neither statistics        *)
(* function nor historian_node assigns to the list or to a message: the    *)
(* list comprehensions, sorted() and the slices build new lists.           *)
(***************************************************************************)
RECURSIVE sort_by_timestamp_loop(_, _, _)
sort_by_timestamp_loop(msgs, i, out) ==
    IF i > Len(msgs) THEN out
    ELSE LET k == Cardinality({j \in 1..Len(out) : out[j].timestamp <= msgs[i].timestamp})
         IN  sort_by_timestamp_loop(msgs, i + 1,
                 SubSeq(out, 1, k) \o <<msgs[i]>> \o SubSeq(out, k + 1, Len(out)))

all_messages_sorted_in_place(all_messages) == sort_by_timestamp_loop(all_messages, 1, <<>>)

all_messages_after(all_messages) == all_messages

(***************************************************************************)
(* State machine.  pc names the next step: "START" before anything ran,    *)
(* then the node the graph runs next, "END" when the run is over; "timing" *)
(* and "ling" after a direct call of one of the two statistics functions;  *)
(* "raised" when a call ended in an exception.  The anomaly detector and   *)
(* the window comparator have their own specifications ("detect" to        *)
(* "detected", "compare" to "compared"); so has rerun_orchestrator         *)
(* ("rerun" to "reran"); "collected" once main.py has looked for the       *)
(* owner profile in the result of a run.                                   *)
(*   llm_out  what the model returned to historian_node, per participant   *)
(*   window   the recent window cut by strategist_node or the comparator   *)
(*   saved    the collections written by save_collection                   *)
(*   ran      the nodes the graph has run, in order                        *)
(*   owner_profile       the "owner_profile" key of the agent state        *)
(*   conversation_state  what build_conversation_state returned to         *)
(*                       orchestrator_node, one block per verdict          *)
(*   main_owner_profile  the owner_profile local of main.py's main()       *)
(*   chats               the chat files of the data directory, each one    *)
(*                       the message list of the owner and one contact     *)
(***************************************************************************)
None == <<>>

\* the collections on disk, by file name: none before the run
NothingSaved == <<>>

\* save_collection(filename, items)
save_collection(files, filename, items) ==
    [f \in DOMAIN files \cup {filename} |-> IF f = filename THEN items ELSE files[f]]

\* main.py: owner_profile = None before the loop over the chat files; the
\* specifications of one timeline leave the data directory out
MainLocals ==
    /\ main_owner_profile = None
    /\ chats = <<>>

\* main.py: the initial state handed to app.invoke, before any node ran
InitialState ==
    /\ timing = None
    /\ ling = None
    /\ profiles = <<>>
    /\ baseline = None
    /\ current = None
    /\ anomalies = <<>>
    /\ window = None
    /\ llm_out = None
    /\ verdicts = <<>>
    /\ actions = <<>>
    /\ saved = NothingSaved
    /\ ran = <<>>
    /\ owner_profile = None
    /\ conversation_state = None
    /\ MainLocals

Init ==
    /\ IsInputTimeline(messages)
    /\ pc = "START"
    /\ InitialState

\* the graph is about to run node n
at(n) == pc = n \/ (pc = "START" /\ successor("START") = n)

\* _compute_timing_stats(p, messages) for every target id p
ComputeTimingStats ==
    /\ pc = "START"
    /\ IF \E p \in AllIds : timing_raises(p, messages)
       THEN pc' = "raised" /\ timing' = timing
       ELSE /\ timing' = [p \in AllIds |-> compute_timing_stats(p, messages)]
            /\ pc' = "timing"
    /\ messages' = all_messages_after(messages)
    /\ UNCHANGED <<owner_profile, main_owner_profile, chats, conversation_state,
                   ling, profiles, baseline, current, anomalies, window, llm_out,
                   verdicts, actions, saved, ran>>

\* _compute_basic_linguistic_stats on every target id's own messages
ComputeBasicLinguisticStats ==
    /\ pc = "START"
    /\ IF \E p \in AllIds : linguistic_raises(participant_msgs(p, messages))
       THEN pc' = "raised" /\ ling' = ling
       ELSE /\ ling' = [p \in AllIds |->
                          compute_basic_linguistic_stats(participant_msgs(p, messages))]
            /\ pc' = "ling"
    /\ messages' = all_messages_after(messages)
    /\ UNCHANGED <<owner_profile, main_owner_profile, chats, conversation_state,
                   timing, profiles, baseline, current, anomalies, window, llm_out,
                   verdicts, actions, saved, ran>>

\* historian_node: one profile per participant, each built from whatever
\* the model returned for that call
HistorianNode ==
    /\ at("historian")
    /\ LET ids == participants(messages) IN
       IF \E k \in 1..Len(ids) :
            \/ timing_raises(ids[k], messages)
            \/ linguistic_raises(participant_msgs(ids[k], messages))
       THEN pc' = "raised" /\ UNCHANGED <<profiles, llm_out, ran>>
       ELSE /\ \E llm \in [1..Len(ids) -> LLMProfiles] :
                 /\ llm_out' = llm
                 /\ profiles' = [k \in 1..Len(ids) |->
                                   analyze_participant(ids[k], messages, llm[k])]
            /\ ran' = Append(ran, "historian")
            /\ pc' = successor("historian")
    /\ messages' = all_messages_after(messages)
    /\ UNCHANGED <<owner_profile, main_owner_profile, chats, conversation_state,
                   timing, ling, baseline, current, anomalies, window, verdicts,
                   actions, saved>>

Next == ComputeTimingStats \/ ComputeBasicLinguisticStats \/ HistorianNode

Spec == Init /\ [][Next]_vars

\* strategist_node: the window is cut, the model returns verdicts, they are
\* sorted by priority and saved
StrategistNode ==
    /\ at("strategist")
    /\ window' = recent_window(messages)
    /\ \E result \in LLMVerdictLists : verdicts' = sort_by_priority(result)
    /\ saved' = save_collection(saved, "strategist_verdicts", verdicts')
    /\ ran' = Append(ran, "strategist")
    /\ pc' = successor("strategist")
    /\ UNCHANGED <<owner_profile, main_owner_profile, chats, conversation_state,
                   messages, timing, ling, profiles, baseline, current, anomalies,
                   llm_out, actions>>

(***************************************************************************)
(* build_conversation_state: for each verdict, who sent the last of the    *)
(* recent messages kept for the contact, and whether it is a question.     *)
(***************************************************************************)
RECENT_MSG_COUNT == 20

QMARK == 63      \* '?'

\* "when", "what", "how", "where", "why", "kab", "kya", "kaise"
QUESTION_WORDS ==
    << <<119, 104, 101, 110>>, <<119, 104, 97, 116>>, <<104, 111, 119>>,
       <<119, 104, 101, 114, 101>>, <<119, 104, 121>>, <<107, 97, 98>>,
       <<107, 121, 97>>, <<107, 97, 105, 115, 101>> >>

RECURSIVE lstrip(_)
lstrip(text) ==
    IF text # <<>> /\ IsSpace(text[1]) THEN lstrip(Tail(text)) ELSE text

RECURSIVE rstrip(_)
rstrip(text) ==
    IF text # <<>> /\ IsSpace(text[Len(text)])
    THEN rstrip(SubSeq(text, 1, Len(text) - 1))
    ELSE text

\* str.strip()
strip(text) == rstrip(lstrip(text))

\* str.lower() on the letters A-Z; every other sampled character is its own
\* lower case
lower(text) ==
    [k \in 1..Len(text) |-> IF text[k] \in 65..90 THEN text[k] + 32 ELSE text[k]]

\* str.endswith(suffix)
endswith(text, suffix) ==
    /\ Len(text) >= Len(suffix)
    /\ SubSeq(text, Len(text) - Len(suffix) + 1, Len(text)) = suffix

\* w in text
contains(text, w) ==
    \E k \in 1..(Len(text) - Len(w) + 1) : SubSeq(text, k, k + Len(w) - 1) = w

is_question(content) ==
    LET last_content == strip(content) IN
    \/ endswith(last_content, <<QMARK>>)
    \/ \E k \in 1..Len(QUESTION_WORDS) : contains(lower(last_content), QUESTION_WORDS[k])

\* [m for m in messages if m.sender_name == contact_name or m.sender_id == "u1"]
contact_msgs(all_messages, contact_name) ==
    SelectSeq(all_messages,
              LAMBDA m : m.sender_name = contact_name \/ m.sender_id = "u1")

\* contact_msgs[-RECENT_MSG_COUNT:]
recent(all_messages, contact_name) ==
    LET kept == contact_msgs(all_messages, contact_name) IN
    SubSeq(kept, IF Len(kept) > RECENT_MSG_COUNT THEN Len(kept) - RECENT_MSG_COUNT + 1 ELSE 1,
           Len(kept))

\* the direction line of one block
direction(recent_msgs) ==
    IF recent_msgs = <<>> THEN "No recent messages found."
    ELSE LET last_msg == recent_msgs[Len(recent_msgs)]
             last_sender_is_owner == last_msg.sender_id = "u1"
         IN  IF last_sender_is_owner /\ is_question(last_msg.content)
             THEN "OWNER asked a QUESTION and is WAITING for a reply"
             ELSE IF last_sender_is_owner
             THEN "OWNER sent the last message (a statement)"
             ELSE "contact sent the last message"

\* one block of the text per verdict: the header, the direction and the
\* recent messages, each tagged [OWNER] or [CONTACT]
build_conversation_state(all_messages, all_verdicts) ==
    [k \in 1..Len(all_verdicts) |->
       LET v == all_verdicts[k]
           recent_msgs == recent(all_messages, v.contact_name)
       IN  [contact_name |-> v.contact_name,
            direction |-> direction(recent_msgs),
            recent_messages |->
              [i \in 1..Len(recent_msgs) |->
                 [tag |-> IF recent_msgs[i].sender_id = "u1" THEN "[OWNER]" ELSE "[CONTACT]",
                  sender_name |-> recent_msgs[i].sender_name,
                  content |-> recent_msgs[i].content]]]]

\* orchestrator_node: the conversation state is built from the messages and
\* the verdicts, the model returns actions, they are saved
OrchestratorNode ==
    /\ at("orchestrator")
    /\ conversation_state' = build_conversation_state(messages, verdicts)
    /\ \E result \in LLMActionLists : actions' = result
    /\ saved' = save_collection(saved, "orchestrator_actions", actions')
    /\ ran' = Append(ran, "orchestrator")
    /\ pc' = successor("orchestrator")
    /\ UNCHANGED <<owner_profile, main_owner_profile, chats,
                   messages, timing, ling, profiles, baseline, current, anomalies,
                   window, llm_out, verdicts>>

\* main.py runs the graph only on a chat of at least 5 messages
MIN_MESSAGES == 5

IsGraphTimeline(msgs) ==
    \E n \in MIN_MESSAGES..MaxGraph : IsTimelineOver(msgs, n, {10}, {PlainText})

InitGraph ==
    /\ IsGraphTimeline(messages)
    /\ pc = "START"
    /\ InitialState

NextGraph == HistorianNode \/ StrategistNode \/ OrchestratorNode

\* app.invoke(initial_state)
SpecGraph == InitGraph /\ [][NextGraph]_vars

\* main.py after app.invoke returned: the owner profile of the first run that
\* has one is kept
CollectOwnerProfile ==
    /\ pc = "END"
    /\ main_owner_profile' =
         IF main_owner_profile = None /\ owner_profile # None
         THEN owner_profile
         ELSE main_owner_profile
    /\ pc' = "collected"
    /\ UNCHANGED <<messages, timing, ling, profiles, baseline, current, anomalies,
                   window, llm_out, verdicts, actions, saved, ran, owner_profile,
                   conversation_state, chats>>

NextMain == NextGraph \/ CollectOwnerProfile

\* one pass of main.py's loop over the chat files: the graph, then the
\* collection of the owner profile
SpecMain == InitGraph /\ [][NextMain]_vars

(***************************************************************************)
(* rerun_orchestrator.py: the orchestrator alone, on the collections saved *)
(* by an earlier run and the recent messages of every chat file.           *)
(***************************************************************************)
MaxChat == 2

MAX_PER_CHAT == 20

\* load_collection(filename, model_class): [] when the file does not exist
load_collection(files, filename) ==
    IF filename \in DOMAIN files THEN files[filename] ELSE <<>>

\* the messages kept of one chat file: blank contents dropped, then the last
\* max_per_chat
load_chat_messages(chat) ==
    LET raw == SelectSeq(chat.messages, LAMBDA m : strip(m.content) # <<>>)
    IN  SubSeq(raw, IF Len(raw) > MAX_PER_CHAT THEN Len(raw) - MAX_PER_CHAT + 1 ELSE 1,
               Len(raw))

RECURSIVE load_all_messages_loop(_, _, _)
load_all_messages_loop(chat_files, i, all_msgs) ==
    IF i > Len(chat_files) THEN all_msgs
    ELSE load_all_messages_loop(chat_files, i + 1,
                                all_msgs \o load_chat_messages(chat_files[i]))

load_all_messages(chat_files) == load_all_messages_loop(chat_files, 1, <<>>)

\* Chat files: the owner and one contact, up to MaxChat messages 10 s apart;
\* texts "a", "a?", " " and "Why"
RerunTexts == { PlainText, <<LA, QMARK>>, <<SP>>, <<87, 104, 121>> }

ChatFile(contact, who, text) ==
    [participants |-> <<"u1", contact>>,
     messages |-> [i \in 1..Len(who) |->
                     MessageModel(who[i], Base + 10 * (i - 1), text[i])]]

\* what an earlier run saved as strategist_verdicts
SavedVerdictLists ==
    { << [contact_name |-> "Riya", state |-> "Stagnant", priority |-> 3,
          recommended_action |-> "Nudge"] >>,
      << [contact_name |-> "Kabir", state |-> "Debt", priority |-> 8,
          recommended_action |-> "Deep_Reply"],
         [contact_name |-> "Riya", state |-> "Stagnant", priority |-> 3,
          recommended_action |-> "Nudge"] >> }

\* the data directory holds the chat with Riya and the chat with Kabir, the
\* collections the verdicts of an earlier run
InitRerun ==
    /\ \E n1, n2 \in 0..MaxChat :
       \E who1 \in [1..n1 -> {"u1", "c1"}] : \E text1 \in [1..n1 -> RerunTexts] :
       \E who2 \in [1..n2 -> {"u1", "c3"}] : \E text2 \in [1..n2 -> RerunTexts] :
          chats = << ChatFile("c1", who1, text1), ChatFile("c3", who2, text2) >>
    /\ \E vs \in SavedVerdictLists : saved = save_collection(NothingSaved, "strategist_verdicts", vs)
    /\ pc = "rerun"
    /\ messages = <<>>
    /\ timing = None
    /\ ling = None
    /\ profiles = <<>>
    /\ baseline = None
    /\ current = None
    /\ anomalies = <<>>
    /\ window = None
    /\ llm_out = None
    /\ verdicts = <<>>
    /\ actions = <<>>
    /\ ran = <<>>
    /\ owner_profile = None
    /\ conversation_state = None
    /\ main_owner_profile = None

\* rerun_orchestrator.main: the collections and the messages are loaded, then
\* orchestrator_node runs on them
RerunOrchestrator ==
    /\ pc = "rerun"
    /\ profiles' = load_collection(saved, "historian_profiles")
    /\ verdicts' = load_collection(saved, "strategist_verdicts")
    /\ LET owner_list == load_collection(saved, "owner_profile")
       IN  owner_profile' = IF owner_list # <<>> THEN owner_list[1] ELSE None
    /\ messages' = load_all_messages(chats)
    /\ conversation_state' = build_conversation_state(messages', verdicts')
    /\ \E result \in LLMActionLists : actions' = result
    /\ saved' = save_collection(saved, "orchestrator_actions", actions')
    /\ pc' = "reran"
    /\ UNCHANGED <<timing, ling, baseline, current, anomalies, window, llm_out, ran,
                   main_owner_profile, chats>>

NextRerun == RerunOrchestrator

SpecRerun == InitRerun /\ [][NextRerun]_vars

\* The emoji count on every text of up to MaxChars characters: one message
\* of one participant, handed to _compute_basic_linguistic_stats
EmojiAlphabet == {SP, LA, GRIN, HAN}

InitEmoji ==
    /\ \E n \in 0..MaxChars : \E text \in [1..n -> EmojiAlphabet] :
          messages = << MessageModel("c1", Base, text) >>
    /\ pc = "START"
    /\ InitialState

NextEmoji == ComputeBasicLinguisticStats

SpecEmoji == InitEmoji /\ [][NextEmoji]_vars

\* The detector on every pair of baseline and current statistics
InitAnomaly ==
    /\ messages = <<>>
    /\ pc = "detect"
    /\ timing = None
    /\ ling = None
    /\ profiles = <<>>
    /\ baseline \in [Range(Metrics) -> MetricValues]
    /\ current \in [Range(Metrics) -> MetricValues]
    /\ anomalies = <<>>
    /\ window = None
    /\ llm_out = None
    /\ verdicts = <<>>
    /\ actions = <<>>
    /\ saved = NothingSaved
    /\ ran = <<>>
    /\ owner_profile = None
    /\ conversation_state = None
    /\ MainLocals

DetectAnomalies ==
    /\ pc = "detect"
    /\ anomalies' = detect_anomalies(baseline, current)
    /\ pc' = "detected"
    /\ UNCHANGED <<owner_profile, main_owner_profile, chats, conversation_state,
                   messages, timing, ling, profiles, baseline, current, window,
                   llm_out, verdicts, actions, saved, ran>>

NextAnomaly == DetectAnomalies

SpecAnomaly == InitAnomaly /\ [][NextAnomaly]_vars

\* Timelines longer than the window: a block of messages of one sender and
\* text followed by a block of another, 10 s apart
WindowTexts == {PlainText, <<GRIN>>}

IsWindowTimeline(msgs) ==
    \E n \in 0..MaxWindow : \E j \in 0..n : \E a, b \in Senders : \E t1, t2 \in WindowTexts :
        msgs = [i \in 1..n |->
                  MessageModel(IF i <= j THEN a ELSE b, Base + 10 * (i - 1),
                               IF i <= j THEN t1 ELSE t2)]

InitWindow ==
    /\ IsWindowTimeline(messages)
    /\ pc = "compare"
    /\ InitialState

\* the comparator for every target id: baseline over the whole timeline,
\* current statistics over the window, then the detector
CompareWindow ==
    /\ pc = "compare"
    /\ window' = recent_window(messages)
    /\ baseline' = [p \in AllIds |-> baseline_stats(p, messages)]
    /\ current' = [p \in AllIds |-> current_stats(p, messages)]
    /\ anomalies' = [p \in AllIds |-> detect_anomalies(baseline'[p], current'[p])]
    /\ pc' = "compared"
    /\ UNCHANGED <<owner_profile, main_owner_profile, chats, conversation_state,
                   messages, timing, ling, profiles, llm_out, verdicts, actions,
                   saved, ran>>

NextWindow == CompareWindow

SpecWindow == InitWindow /\ [][NextWindow]_vars

(***************************************************************************)
(* Vocabulary of the properties, stated on the timeline itself and not     *)
(* through the loops above.                                                *)
(***************************************************************************)
Abs(x) == IF x < 0 THEN -x ELSE x

\* seconds between message i and the message before it
GapBefore(msgs, i) == msgs[i].timestamp - msgs[i - 1].timestamp

GapsOf(msgs) == [k \in 1..(Len(msgs) - 1) |-> GapBefore(msgs, k + 1)]

Ascending(msgs) == \A i \in 2..Len(msgs) : GapBefore(msgs, i) >= 0

RECURSIVE SumGaps(_, _)
SumGaps(msgs, S) ==
    IF S = {} THEN 0
    ELSE LET i == CHOOSE i \in S : TRUE IN GapBefore(msgs, i) + SumGaps(msgs, S \ {i})

\* q is the quotient num/den rounded to the nearest unit
Nearest(q, num, den) == 2 * Abs(q * den - num) <= den

\* positions of the target's messages that directly follow another
\* participant's message after a strictly positive time
ReplyPositions(p, msgs) ==
    { i \in 2..Len(msgs) :
        /\ msgs[i].sender_id = p
        /\ msgs[i - 1].sender_id # p
        /\ GapBefore(msgs, i) > 0 }

\* positions of the target's messages that are excluded by adjacency alone
OwnPrecededPositions(p, msgs) ==
    { i \in 2..Len(msgs) :
        msgs[i].sender_id = p /\ msgs[i - 1].sender_id = p /\ GapBefore(msgs, i) > 0 }

\* positions that open a conversation
ConversationStarts(msgs) ==
    { i \in 1..Len(msgs) : i = 1 \/ GapBefore(msgs, i) >= 3600 }

StartsBy(p, msgs) == { i \in ConversationStarts(msgs) : msgs[i].sender_id = p }

\* maximal stretches a..b of the target's own messages, three or more long,
\* in which each message comes at most 60 s after the one before
BatchEpisodes(p, msgs) ==
    LET own == participant_msgs(p, msgs)
        Close(k) == own[k + 1].timestamp - own[k].timestamp <= 60
    IN  { ab \in (1..Len(own)) \X (1..Len(own)) :
            /\ ab[2] - ab[1] + 1 >= 3
            /\ \A k \in ab[1]..(ab[2] - 1) : Close(k)
            /\ (ab[1] = 1 \/ ~Close(ab[1] - 1))
            /\ (ab[2] = Len(own) \/ ~Close(ab[2])) }

OwnOffsets(p, msgs) ==
    LET own == participant_msgs(p, msgs)
    IN  [k \in 1..Len(own) |-> own[k].timestamp - own[1].timestamp]

\* how many messages the target sent in hour h
HourCount(p, msgs, h) ==
    Cardinality({ i \in 1..Len(msgs) : msgs[i].sender_id = p /\ Hour(msgs[i].timestamp) = h })

HoursUsed(p, msgs) == { h \in 0..23 : HourCount(p, msgs, h) > 0 }

\* C1: every profile historian_node returns carries, in the eight fields the
\* code computes, the values of _compute_timing_stats and
\* _compute_basic_linguistic_stats for a participant of the timeline, whatever
\* the external model returned.
C1_ComputedValuesOverwrite ==
    pc = "strategist" =>
      \A k \in 1..Len(profiles) :
        LET p  == profiles[k]
            t  == compute_timing_stats(p.sender_id, messages)
            l  == compute_basic_linguistic_stats(participant_msgs(p.sender_id, messages))
        IN  /\ \E i \in 1..Len(messages) : messages[i].sender_id = p.sender_id
            /\ p.sender_name = participant_name(p.sender_id, messages)
            /\ p.communication_patterns.reply_latency_seconds = t.reply_latency_seconds
            /\ p.communication_patterns.peak_activity_hours = t.peak_activity_hours
            /\ p.communication_patterns.initiation_rate = t.initiation_rate
            /\ p.communication_patterns.batch_messaging = t.batch_messaging
            /\ p.typing_style.emoji_density = l.emoji_density
            /\ p.typing_style.avg_word_count = l.avg_word_count

\* a profile built from model output "Model A" (emoji_density 999, latency
\* 99999) whose final emoji density and latency are the computed ones
C1_Witness ==
    /\ pc = "strategist"
    /\ \E k \in 1..Len(profiles) :
         /\ profiles[k].typing_style.formality_level = "Casual"
         /\ profiles[k].typing_style.emoji_density = 100
         /\ profiles[k].communication_patterns.reply_latency_seconds = 100

\* C2 as stated: the returned reply latency is exactly the arithmetic mean of
\* the reply gaps (tenths * count = 10 * sum), and 0.0 when there is none.
C2_LatencyIsExactMean ==
    pc = "timing" =>
      \A p \in AllIds :
        LET R == ReplyPositions(p, messages) IN
        IF R = {} THEN timing[p].reply_latency_seconds = 0
        ELSE timing[p].reply_latency_seconds * Cardinality(R) = 10 * SumGaps(messages, R)

\* C2 amended: the returned reply latency is the arithmetic mean of exactly
\* the reply gaps, rounded to one decimal place; 0.0 when there is none.
C2_LatencyIsRoundedMean ==
    pc = "timing" =>
      \A p \in AllIds :
        LET R == ReplyPositions(p, messages) IN
        IF R = {} THEN timing[p].reply_latency_seconds = 0
        ELSE Nearest(timing[p].reply_latency_seconds, 10 * SumGaps(messages, R), Cardinality(R))

\* two replies averaged, next to an own-preceded message, a zero-gap reply
\* being possible elsewhere: the target also opens the timeline
C2_Witness ==
    /\ pc = "timing"
    /\ \E p \in Senders :
         /\ Cardinality(ReplyPositions(p, messages)) >= 2
         /\ OwnPrecededPositions(p, messages) # {}
         /\ messages[1].sender_id = p
         /\ timing[p].reply_latency_seconds > 0

\* C3 as stated: conversations are 1 + the number of gaps >= 3600 s, and the
\* initiation rate is exactly initiated / conversations.
C3_RateIsExactQuotient ==
    pc = "timing" =>
      \A p \in AllIds :
        IF messages = <<>> THEN timing[p].initiation_rate = 0
        ELSE /\ total_conversations(p, messages) = Cardinality(ConversationStarts(messages))
             /\ timing[p].initiation_rate * Cardinality(ConversationStarts(messages))
                  = 1000 * Cardinality(StartsBy(p, messages))

\* C3 amended: conversations are 1 + the number of consecutive pairs whose
\* gap is >= 3600 s, the conversations the target initiated are those whose
\* first message is the target's, and the initiation rate is their quotient
\* rounded to three decimal places; 0.0 for the empty timeline; gaps
\* [0, 3700, 10] give 2 conversations.
C3_RateIsRoundedQuotient ==
    pc = "timing" =>
      \A p \in AllIds :
        IF messages = <<>> THEN timing[p].initiation_rate = 0
        ELSE /\ total_conversations(p, messages) = Cardinality(ConversationStarts(messages))
             /\ total_conversations(p, messages)
                  = 1 + Cardinality({ i \in 2..Len(messages) : GapBefore(messages, i) >= 3600 })
             /\ initiations(p, messages) = Cardinality(StartsBy(p, messages))
             /\ Nearest(timing[p].initiation_rate,
                        1000 * Cardinality(StartsBy(p, messages)),
                        Cardinality(ConversationStarts(messages)))
             /\ GapsOf(messages) \in { <<3700, 10>>, <<0, 3700, 10>> }
                  => total_conversations(p, messages) = 2

\* a gap of exactly 3600 s (a boundary) next to one of 3599 s (none), the
\* target having initiated one of the two conversations
C3_Witness ==
    /\ pc = "timing"
    /\ Range(GapsOf(messages)) = {3599, 3600}
    /\ \E p \in Senders :
         /\ timing[p].initiation_rate = 500
         /\ total_conversations(p, messages) = 2

\* C4: the batch episodes counted are the maximal stretches of three or more
\* own messages each at most 60 s after the previous own message (other
\* participants' messages in between change nothing); batch_messaging is true
\* exactly when there are two or more; own messages at [0, 10, 20, 200] give
\* one episode and no batch messaging.
C4_BatchEpisodes ==
    pc = "timing" =>
      \A p \in AllIds :
        /\ batch_count(p, messages) = Cardinality(BatchEpisodes(p, messages))
        /\ timing[p].batch_messaging = (Cardinality(BatchEpisodes(p, messages)) >= 2)
        /\ OwnOffsets(p, messages) = <<0, 10, 20, 200>>
             => batch_count(p, messages) = 1 /\ ~timing[p].batch_messaging

\* two episodes, hence batch messaging, the first of them with another
\* participant's message between its own messages
C4_Witness ==
    /\ pc = "timing"
    /\ \E p \in Senders :
         /\ timing[p].batch_messaging
         /\ OwnOffsets(p, messages) = <<0, 10, 20, 200, 210, 220>>
         /\ Len(messages) = 7

\* C5: peak_activity_hours has at most 5 entries, all distinct hours in 0..23
\* in which the target sent a message, in non-increasing order of the
\* target's message count, and no hour left out has a strictly larger count
\* than an hour listed.
C5_PeakHours ==
    pc = "timing" =>
      \A p \in AllIds :
        LET ph == timing[p].peak_activity_hours IN
        /\ Len(ph) <= 5
        /\ \A k \in 1..Len(ph) : ph[k] \in 0..23 /\ HourCount(p, messages, ph[k]) >= 1
        /\ \A j, k \in 1..Len(ph) : j # k => ph[j] # ph[k]
        /\ \A k \in 1..(Len(ph) - 1) :
             HourCount(p, messages, ph[k]) >= HourCount(p, messages, ph[k + 1])
        /\ \A h \in (0..23) \ Range(ph) : \A k \in 1..Len(ph) :
             HourCount(p, messages, h) <= HourCount(p, messages, ph[k])

\* the sort moved a busier hour in front of an hour seen earlier
C5_Witness ==
    /\ pc = "timing"
    /\ \E p \in Senders :
         LET ph == timing[p].peak_activity_hours IN
         /\ Len(ph) >= 3
         /\ HourCount(p, messages, ph[1]) > HourCount(p, messages, ph[2])
         /\ Hour(participant_msgs(p, messages)[1].timestamp) # ph[1]

\* C6: hours with equal counts are listed lower hour first, and when the cut
\* to 5 entries falls between equal counts the lower hour is the one kept
\* (stated here for timelines in ascending order only, which is enough to
\* refute it: 23:00 comes before 00:00 of the next day).
C6_TiesByAscendingHour ==
    (pc = "timing" /\ Ascending(messages)) =>
      \A p \in AllIds :
        LET ph == timing[p].peak_activity_hours IN
        /\ \A k \in 1..(Len(ph) - 1) :
             HourCount(p, messages, ph[k]) = HourCount(p, messages, ph[k + 1])
               => ph[k] < ph[k + 1]
        /\ \A h \in HoursUsed(p, messages) \ Range(ph) : \A k \in 1..Len(ph) :
             HourCount(p, messages, h) = HourCount(p, messages, ph[k]) => ph[k] < h

\* messages whose content is neither empty nor all whitespace
NonBlank(msgs) == { i \in 1..Len(msgs) : \E k \in 1..Len(msgs[i].content) : ~IsSpace(msgs[i].content[k]) }

\* maximal runs of class characters, counted where they end
EmojiRuns(content) ==
    Cardinality({ k \in 1..Len(content) :
        InEmojiClass(content[k]) /\ (k = Len(content) \/ ~InEmojiClass(content[k + 1])) })

\* whitespace-separated words, counted where they end
Words(content) ==
    Cardinality({ k \in 1..Len(content) :
        ~IsSpace(content[k]) /\ (k = Len(content) \/ IsSpace(content[k + 1])) })

RECURSIVE TotalOver(_, _, _)
TotalOver(F(_), msgs, S) ==
    IF S = {} THEN 0
    ELSE LET i == CHOOSE i \in S : TRUE IN F(msgs[i].content) + TotalOver(F, msgs, S \ {i})

\* C7: with n the number of the target's messages that are not blank, E the
\* emoji runs and W the words in them, emoji_density is E/n rounded to two
\* decimals and avg_word_count is floor(W/n); both are 0 when n = 0.
C7_LinguisticStats ==
    pc = "ling" =>
      \A p \in AllIds :
        LET own == participant_msgs(p, messages)
            n   == Cardinality(NonBlank(own))
            E   == TotalOver(EmojiRuns, own, NonBlank(own))
            W   == TotalOver(Words, own, NonBlank(own))
        IN  IF n = 0 THEN ling[p].emoji_density = 0 /\ ling[p].avg_word_count = 0
            ELSE /\ Nearest(ling[p].emoji_density, 100 * E, n)
                 /\ ling[p].avg_word_count * n <= W
                 /\ W < (ling[p].avg_word_count + 1) * n

\* a blank message next to two that are not, with emoji, the word total not
\* a multiple of the count
C7_Witness ==
    /\ pc = "ling"
    /\ \E p \in Senders :
         LET own == participant_msgs(p, messages) IN
         /\ Cardinality(NonBlank(own)) = 2
         /\ Len(own) = 3
         /\ ling[p].emoji_density > 0
         /\ TotalOver(Words, own, NonBlank(own)) = 3
         /\ ling[p].avg_word_count = 1

\* C8: on a non-empty timeline the initiation rate of every target id, in
\* the timeline or not, lies in [0, 1]: initiations never exceed conversations.
C8_RateInUnitInterval ==
    (pc = "timing" /\ messages # <<>>) =>
      \A p \in AllIds :
        /\ 0 <= timing[p].initiation_rate
        /\ timing[p].initiation_rate <= 1000
        /\ initiations(p, messages) <= total_conversations(p, messages)

\* several conversations, all opened by one participant, none by the absent one
C8_Witness ==
    /\ pc = "timing"
    /\ Cardinality(ConversationStarts(messages)) >= 3
    /\ \E p \in Senders : timing[p].initiation_rate = 1000
    /\ timing["c2"].initiation_rate = 0
    /\ \E i \in 1..Len(messages) : i \notin ConversationStarts(messages)

\* C9: reply latency, emoji density and average word count are never
\* negative, also on a timeline whose timestamps are not ascending.
C9_NonNegative ==
    /\ pc = "timing" => \A p \in AllIds : timing[p].reply_latency_seconds >= 0
    /\ pc = "ling" => \A p \in AllIds : ling[p].emoji_density >= 0 /\ ling[p].avg_word_count >= 0

\* a reply stamped earlier than the message it follows
C9_Witness ==
    /\ pc = "timing"
    /\ ~Ascending(messages)
    /\ \E i \in 2..Len(messages) :
         /\ messages[i].sender_id # messages[i - 1].sender_id
         /\ GapBefore(messages, i) < 0
         /\ timing[messages[i].sender_id].reply_latency_seconds = 0

\* C10: for a metric with a non-zero baseline an Anomaly is emitted if and
\* only if current/baseline >= 2.0 or <= 0.5 (10 -> 20 and 20 -> 10 emit one,
\* 10 -> 15 none), and its deviation_factor is current/baseline.
C10_AnomalyThresholds ==
    pc = "detected" =>
      /\ \A m \in Range(Metrics) :
           LET emitted == { k \in 1..Len(anomalies) : anomalies[k].metric = m } IN
           baseline[m] # 0 =>
             /\ Cardinality(emitted) <= 1
             /\ (emitted # {}) <=>
                  (10 * current[m] >= 20 * baseline[m] \/ 10 * current[m] <= 5 * baseline[m])
             /\ (baseline[m] = 10 /\ current[m] = 20) => emitted # {}
             /\ (baseline[m] = 20 /\ current[m] = 10) => emitted # {}
             /\ (baseline[m] = 10 /\ current[m] = 15) => emitted = {}
      /\ \A k \in 1..Len(anomalies) :
           LET a == anomalies[k] IN
           /\ a.baseline = baseline[a.metric]
           /\ a.current = current[a.metric]
           /\ a.deviation_factor[2] # 0
           /\ a.deviation_factor[1] * a.baseline = a.deviation_factor[2] * a.current

\* the three cases of the statement side by side
C10_Witness ==
    /\ pc = "detected"
    /\ baseline["reply_latency"] = 10 /\ current["reply_latency"] = 20
    /\ baseline["emoji_density"] = 20 /\ current["emoji_density"] = 10
    /\ baseline["avg_word_count"] = 10 /\ current["avg_word_count"] = 15
    /\ Len(anomalies) = 2

\* C11: a metric whose baseline is 0 gets no Anomaly whatever its current
\* value, the detector still returns, and every other metric is evaluated on
\* its own baseline and current value as if the zero-baseline metric were
\* absent.
C11_ZeroBaselineSkipped ==
    pc = "detected" =>
      \A m \in Range(Metrics) :
        LET emitted == { k \in 1..Len(anomalies) : anomalies[k].metric = m } IN
        /\ baseline[m] = 0 => emitted = {}
        /\ (baseline[m] # 0 /\ \E z \in Range(Metrics) : baseline[z] = 0) =>
             (emitted # {}) <=> (current[m] >= 2 * baseline[m] \/ 2 * current[m] <= baseline[m])

\* a zero baseline with a non-zero current value next to a metric that
\* doubled and one that did not move
C11_Witness ==
    /\ pc = "detected"
    /\ baseline["reply_latency"] = 0 /\ current["reply_latency"] = 20
    /\ baseline["emoji_density"] = 10 /\ current["emoji_density"] = 20
    /\ baseline["avg_word_count"] = 15 /\ current["avg_word_count"] = 15
    /\ Len(anomalies) = 1
    /\ anomalies[1].metric = "emoji_density"

\* C12: the recent window is the last 30 messages of the whole timeline (all
\* of it when it is shorter), cut before any filtering by participant; the
\* current statistics of a participant are those of the participant's
\* messages inside that window, so a participant with no message among the
\* last 30 has an empty sample and current statistics of zero.
C12_WindowBeforeFilter ==
    pc = "compared" =>
      LET n     == Len(messages)
          first == IF n > 30 THEN n - 29 ELSE 1
      IN  /\ Len(window) = n - first + 1
          /\ \A k \in 1..Len(window) : window[k] = messages[first + k - 1]
          /\ \A p \in AllIds :
               LET own == SelectSeq(window, LAMBDA m : m.sender_id = p)
                   cnt == Cardinality(NonBlank(own))
                   E   == TotalOver(EmojiRuns, own, NonBlank(own))
                   W   == TotalOver(Words, own, NonBlank(own))
                   R   == ReplyPositions(p, window)
               IN  /\ Len(own) = Cardinality({ i \in first..n : messages[i].sender_id = p })
                   /\ IF cnt = 0
                      THEN current[p].emoji_density = 0 /\ current[p].avg_word_count = 0
                      ELSE /\ Nearest(current[p].emoji_density, 100 * E, cnt)
                           /\ current[p].avg_word_count * cnt <= W
                           /\ W < (current[p].avg_word_count + 1) * cnt
                   /\ IF R = {} THEN current[p].reply_latency = 0
                      ELSE Nearest(current[p].reply_latency, 10 * SumGaps(window, R),
                                   Cardinality(R))
                   /\ (\A i \in first..n : messages[i].sender_id # p) =>
                        /\ window_sample(p, messages) = <<>>
                        /\ current[p] = [reply_latency |-> 0, emoji_density |-> 0,
                                         avg_word_count |-> 0]

\* a timeline of more than 30 messages whose earliest messages are the only
\* ones of their sender: that sender has a baseline but nothing in the window
C12_Witness ==
    /\ pc = "compared"
    /\ Len(messages) > 30
    /\ Len(window) = 30
    /\ \E p \in Senders :
         /\ messages[1].sender_id = p
         /\ \A k \in 1..Len(window) : window[k].sender_id # p
         /\ baseline[p].avg_word_count = 1
         /\ current[p].avg_word_count = 0
         /\ current[p].emoji_density = 0

\* C13: on degenerate input (the empty timeline, a single message, a single
\* participant, a target id that authored nothing) neither statistics
\* function ends in an exception, and each statistic takes its fallback:
\* latency 0.0 when there is no reply gap, no peak hour when the target has
\* no message, initiation rate 0.0 when there is no conversation, no batch
\* messaging when the target has fewer than three messages, emoji density 0.0
\* and average word count 0 when the target has no non-blank message.
C13_DegenerateFallbacks ==
    /\ pc # "raised"
    /\ pc = "timing" =>
         \A p \in AllIds :
           LET own == participant_msgs(p, messages) IN
           /\ (ReplyPositions(p, messages) = {}) => timing[p].reply_latency_seconds = 0
           /\ Cardinality({ messages[i].sender_id : i \in 1..Len(messages) }) <= 1
                => timing[p].reply_latency_seconds = 0
           /\ own = <<>> => timing[p].peak_activity_hours = <<>>
           /\ messages = <<>> => timing[p].initiation_rate = 0
           /\ own = <<>> => timing[p].initiation_rate = 0
           /\ Len(own) < 3 => ~timing[p].batch_messaging
    /\ pc = "ling" =>
         \A p \in AllIds :
           NonBlank(participant_msgs(p, messages)) = {}
             => ling[p].emoji_density = 0 /\ ling[p].avg_word_count = 0

\* a timeline of a single message: its author has one peak hour, opened the
\* only conversation and has no reply gap; the absent id has nothing
C13_Witness ==
    /\ pc = "timing"
    /\ Len(messages) = 1
    /\ LET p == messages[1].sender_id IN
       /\ timing[p].reply_latency_seconds = 0
       /\ timing[p].peak_activity_hours = <<22>>
       /\ timing[p].initiation_rate = 1000
       /\ ~timing[p].batch_messaging
    /\ timing["c2"].peak_activity_hours = <<>>
    /\ timing["c2"].initiation_rate = 0

\* C14: a call of a statistics function (directly or from historian_node) on
\* a timeline whose timestamps are not in ascending order ends in an error
\* instead of returning statistics.
C14_UnorderedTimelineRaises ==
    (pc # "START" /\ ~Ascending(messages)) =>
      pc = "raised"

\* C16: no step of _compute_timing_stats, _compute_basic_linguistic_stats or
\* historian_node changes the message list it was given: same length, same
\* order, same field values after the call as before.
C16_InputNotMutated == [][messages' = messages]_vars

\* a call has returned on a timeline that is not in timestamp order, which
\* a sort in place would have rearranged
C16_Witness ==
    /\ pc \in {"timing", "ling", "strategist"}
    /\ Len(messages) >= 2
    /\ ~Ascending(messages)
    /\ pc = "strategist" => Len(profiles) = 2

\* the blocks named for the classifier: emoticons, pictographs, transport
\* symbols, flags, dingbats, enclosed characters (U+2460-24FF, U+1F100-1F2FF),
\* supplemental symbols and the two extended blocks, misc symbols, variation
\* selectors, zero-width joiner
DescribedBlocks ==
    { <<128512, 128591>>, <<127744, 128511>>, <<128640, 128767>>,
      <<127456, 127487>>, <<9986, 10160>>,    <<9312, 9471>>,
      <<127232, 127743>>, <<129280, 129535>>, <<129536, 129647>>,
      <<129648, 129791>>, <<9728, 9983>>,     <<65024, 65039>>,
      <<8205, 8205>> }

IsEmojiOrSymbol(c) == \E r \in DescribedBlocks : r[1] <= c /\ c <= r[2]

\* maximal runs of emoji or symbol characters, counted where they end
DescribedRuns(content) ==
    Cardinality({ k \in 1..Len(content) :
        IsEmojiOrSymbol(content[k]) /\ (k = Len(content) \/ ~IsEmojiOrSymbol(content[k + 1])) })

\* C17: the emoji count behind emoji_density is the number of maximal runs of
\* emoji, symbol, variation-selector or joiner characters: adjacent ones count
\* once, separated ones separately, a text without any counts 0, and a letter
\* or an ideograph is never counted.
C17_OnlyEmojiRunsCounted ==
    pc = "ling" =>
      \A p \in AllIds :
        LET own == participant_msgs(p, messages)
            n   == Cardinality(NonBlank(own))
            E   == TotalOver(DescribedRuns, own, NonBlank(own))
        IN  /\ n # 0 => Nearest(ling[p].emoji_density, 100 * E, n)
            /\ (\A i \in 1..Len(own) : \A k \in 1..Len(own[i].content) :
                  ~IsEmojiOrSymbol(own[i].content[k]))
                 => ling[p].emoji_density = 0

\* C18: every profile historian_node returns carries formality_level,
\* use_of_slang, punctuation_style, jargon_used, responsiveness,
\* sentiment_tone and top_topics exactly as the model returned them for that
\* participant.
C18_ExternalFieldsKept ==
    pc = "strategist" =>
      /\ Len(profiles) = Len(llm_out)
      /\ \A k \in 1..Len(profiles) :
           LET p == profiles[k]
               r == llm_out[k]
           IN  /\ p.typing_style.formality_level = r.typing_style.formality_level
               /\ p.typing_style.use_of_slang = r.typing_style.use_of_slang
               /\ p.typing_style.punctuation_style = r.typing_style.punctuation_style
               /\ p.typing_style.jargon_used = r.typing_style.jargon_used
               /\ p.communication_patterns.responsiveness
                    = r.communication_patterns.responsiveness
               /\ p.sentiment_tone = r.sentiment_tone
               /\ p.top_topics = r.top_topics

\* two participants with different model outputs; the first profile keeps
\* the model's labels although its numbers were replaced
C18_Witness ==
    /\ pc = "strategist"
    /\ Len(profiles) = 2
    /\ llm_out[1] # llm_out[2]
    /\ profiles[1].sentiment_tone = "Enthusiastic"
    /\ profiles[1].communication_patterns.responsiveness = "Batch Replier"
    /\ ~profiles[1].communication_patterns.batch_messaging
    /\ profiles[1].typing_style.emoji_density # llm_out[1].typing_style.emoji_density
    /\ profiles[2].top_topics = <<>>

\* C19: a run of the compiled graph executes historian, strategist and
\* orchestrator in that order, none of them twice: the strategist runs only
\* once the historian has written the profiles, the orchestrator only once
\* the strategist has written the verdicts, the run is over exactly when the
\* orchestrator has written the actions, and until then the graph is at a
\* node that is still to run.
C19_NodesInOrder ==
    LET order == <<"historian", "strategist", "orchestrator">> IN
    /\ Len(ran) <= 3
    /\ \A k \in 1..Len(ran) : ran[k] = order[k]
    /\ pc = "END" <=> ran = order
    /\ pc = "START" <=> ran = <<>>
    /\ pc \notin {"START", "END"} => pc = order[Len(ran) + 1]
    /\ pc # "END" => \E n \in Nodes : at(n)
    /\ IF Len(ran) >= 1
       THEN Len(profiles) = Len(participants(messages)) /\ Len(profiles) >= 1
       ELSE profiles = <<>>
    /\ IF Len(ran) >= 2
       THEN "strategist_verdicts" \in DOMAIN saved /\ saved["strategist_verdicts"] = verdicts
       ELSE "strategist_verdicts" \notin DOMAIN saved /\ verdicts = <<>>
    /\ IF Len(ran) >= 3
       THEN "orchestrator_actions" \in DOMAIN saved /\ saved["orchestrator_actions"] = actions
       ELSE "orchestrator_actions" \notin DOMAIN saved /\ actions = <<>>

\* a finished run: two profiles, two verdicts sorted by priority, one action
C19_Witness ==
    /\ pc = "END"
    /\ ran = <<"historian", "strategist", "orchestrator">>
    /\ Len(profiles) = 2
    /\ Len(verdicts) = 2
    /\ verdicts[1].priority = 8
    /\ Len(actions) = 1

\* C20: every batch episode counted is a streak of at least 3 messages of the
\* target whose first and last message are at most 60 seconds apart; so a
\* target found to batch has two such streaks (stated for timelines in
\* ascending order).
C20_EpisodeWithinSixtySeconds ==
    (pc = "timing" /\ Ascending(messages)) =>
      \A p \in AllIds :
        LET own == participant_msgs(p, messages)
            Within(ab) == /\ ab[2] - ab[1] + 1 >= 3
                          /\ own[ab[2]].timestamp - own[ab[1]].timestamp <= 60
        IN  /\ batch_count(p, messages) = Cardinality(BatchEpisodes(p, messages))
            /\ \A ab \in BatchEpisodes(p, messages) : Within(ab)
            /\ timing[p].batch_messaging =>
                 \E ab, cd \in (1..Len(own)) \X (1..Len(own)) :
                    Within(ab) /\ Within(cd) /\ ab[2] < cd[1]

\* positions at which a sender other than the owner appears for the first time
NonOwnerFirstPositions(msgs) ==
    { i \in 1..Len(msgs) :
        /\ msgs[i].sender_id # "u1"
        /\ \A j \in 1..(i - 1) : msgs[j].sender_id # msgs[i].sender_id }

\* C21: historian_node returns exactly one profile per distinct sender id
\* other than the owner's, in order of first appearance in the timeline, and
\* no profile for the owner "u1".
C21_ProfilesExcludeOwner ==
    pc = "strategist" =>
      LET F == NonOwnerFirstPositions(messages) IN
      /\ Len(profiles) = Cardinality(F)
      /\ \A k \in 1..Len(profiles) : profiles[k].sender_id # "u1"
      /\ \A k \in 1..Len(profiles) :
           \E i \in F : /\ messages[i].sender_id = profiles[k].sender_id
                        /\ Cardinality({ j \in F : j < i }) = k - 1

\* the owner sent a message of the chat being processed
OwnerSent(msgs) == \E i \in 1..Len(msgs) : msgs[i].sender_id = "u1"

\* C22: when the chat holds messages of the owner, the owner_profile that
\* orchestrator_node reads from the state is a profile and not None, and after
\* the run main has collected an owner profile that is not None.
C22_OwnerProfileReceived ==
    OwnerSent(messages) =>
        /\ (pc \in {"orchestrator", "END", "collected"} => owner_profile # None)
        /\ (pc = "collected" => main_owner_profile # None)

\* the distinct sender ids of a timeline
SenderIds(msgs) == { msgs[i].sender_id : i \in 1..Len(msgs) }

\* the initiations counted for each id of a set, added up
RECURSIVE InitiationsOver(_, _)
InitiationsOver(ids, msgs) ==
    IF ids = {} THEN 0
    ELSE LET p == CHOOSE q \in ids : TRUE
         IN  initiations(p, msgs) + InitiationsOver(ids \ {p}, msgs)

\* C23: on a non-empty timeline every conversation is initiated by exactly one
\* participant: the initiations counted for the distinct sender ids add up to
\* the number of conversations, which is the same whichever target is asked
\* and is the number of conversation starts of the timeline.
C23_InitiationsPartitionConversations ==
    (pc = "timing" /\ messages # <<>>) =>
      /\ \A p \in AllIds :
           /\ total_conversations(p, messages) = Cardinality(ConversationStarts(messages))
           /\ InitiationsOver(SenderIds(messages), messages) = total_conversations(p, messages)
           /\ (total_conversations(p, messages) > 0 =>
                 Nearest(timing[p].initiation_rate, 1000 * initiations(p, messages),
                         total_conversations(p, messages)))
      /\ \A p, q \in AllIds : total_conversations(p, messages) = total_conversations(q, messages)

\* three conversations or more, some opened by the owner and some by the
\* contact, and a message that opens none
C23_Witness ==
    /\ pc = "timing"
    /\ Cardinality(ConversationStarts(messages)) >= 3
    /\ StartsBy("u1", messages) # {}
    /\ StartsBy("c1", messages) # {}
    /\ initiations("u1", messages) + initiations("c1", messages) >= 3
    /\ \E i \in 1..Len(messages) : i \notin ConversationStarts(messages)

\* the conversation with a contact: the loaded messages of the chat files
\* that contact takes part in, and of no other chat
RECURSIVE ConversationWith(_, _)
ConversationWith(contact_name, chat_files) ==
    IF chat_files = <<>> THEN <<>>
    ELSE LET chat == Head(chat_files)
             here == \E k \in 1..Len(chat.participants) :
                        SenderName(chat.participants[k]) = contact_name
         IN  (IF here THEN load_chat_messages(chat) ELSE <<>>)
               \o ConversationWith(contact_name, Tail(chat_files))

\* C24: in a run of rerun_orchestrator over several chats, the block of each
\* verdict is built from the conversation with that contact only: the recent
\* messages are the last RECENT_MSG_COUNT messages of that conversation, and
\* the direction says the contact sent the last message exactly when the last
\* message of that conversation is not the owner's; a message the owner sent
\* in another chat neither appears nor decides the direction.
C24_DirectionFromOwnConversation ==
    pc = "reran" =>
      \A k \in 1..Len(conversation_state) :
        LET block == conversation_state[k]
            conv == ConversationWith(block.contact_name, chats)
            n == IF Len(conv) > RECENT_MSG_COUNT THEN RECENT_MSG_COUNT ELSE Len(conv)
            shown == SubSeq(conv, Len(conv) - n + 1, Len(conv))
        IN  /\ Len(block.recent_messages) = n
            /\ \A i \in 1..n :
                 /\ block.recent_messages[i].content = shown[i].content
                 /\ block.recent_messages[i].sender_name = shown[i].sender_name
            /\ n > 0 => (block.direction = "contact sent the last message"
                           <=> shown[n].sender_id # "u1")

====
